---- MODULE Spec2Model ----
(***************************************************************************)
(* Availability engine of google-mcp (tools/calendar.go): the handler of   *)
(* calendar_find_time_slot, mergeTimeSlots, findAvailableSlots and         *)
(* parseTimeString.                                                        *)
(*                                                                         *)
(* Time is an integer number of minutes since 00:00 of a Saturday (the     *)
(* epoch of the model), all instants sharing one location without DST.     *)
(* Strings are sequences of one-character strings.                         *)
(***************************************************************************)
EXTENDS Integers, Sequences, FiniteSets, TLC

VARIABLES
    pc,                 \* position in calendarFindTimeSlotHandler
    args,               \* the tool arguments of the call
    calendar,           \* the remote calendars: id -> [err, items]
    workingHoursStart,  \* handler local, after defaulting
    workingHoursEnd,    \* handler local, after defaulting
    maxResults,         \* handler local, after defaulting
    calendarsToCheck,   \* handler local
    calIdx,             \* how many calendars of calendarsToCheck were fetched
    allBusyTimes,       \* handler local (sorted in place by mergeTimeSlots)
    busyDetails,        \* handler local
    rawBusyTimes,       \* history: allBusyTimes as passed to mergeTimeSlots
    mergedBusyTimes,    \* handler local
    fs,                 \* the frame of findAvailableSlots
    result              \* what the handler returned

vars == <<pc, args, calendar, workingHoursStart, workingHoursEnd, maxResults,
          calendarsToCheck, calIdx, allBusyTimes, busyDetails, rawBusyTimes,
          mergedBusyTimes, fs, result>>

(***************************************************************************)
(* Bounds of the model.                                                    *)
(***************************************************************************)
\* mergeTimeSlots alone: lists of up to MaxSlots intervals over 0..MaxT
MaxSlots == 3
MaxT == 3
\* the handler: range instants on days 0..MaxDay, up to MaxEvents events per
\* calendar, max_results arguments 0..MaxResultsArg
MaxDay == 3
MaxEvents == 2
MaxResultsArg == 2
\* a result limit no scan within the bounds reaches
NoLimit == 1000

(***************************************************************************)
(* package time                                                            *)
(***************************************************************************)
\* time.Date(y, m, d, hour, min, 0, 0, loc) for the d-th day of the model;
\* out-of-range hours and minutes are normalised by the arithmetic, as Go does
Date(day, hour, min) == day * 1440 + hour * 60 + min

DayOf(t) == t \div 1440

\* t.AddDate(0, 0, 1)
AddDay(t) == t + 1440

\* time.Weekday: Sunday = 0 .. Saturday = 6; day 0 of the model is a Saturday
Sunday == 0
Saturday == 6
Weekday(t) == (DayOf(t) + 6) % 7

(***************************************************************************)
(* timeSlot and mergeTimeSlots                                             *)
(***************************************************************************)
timeSlot(s, e) == [Start |-> s, End |-> e]

Swap(slots, i, j) == [slots EXCEPT ![i] = slots[j], ![j] = slots[i]]

\* slots[i].Start.After(slots[j].Start)
SortSwapMutant(a, b) == a.Start < b.Start
SortSwapByEnd(a, b) == a.End > b.End
SortSwap(a, b) == a.Start > b.Start

\* the exchange sort of mergeTimeSlots: for i, for j > i, swap when out of order
RECURSIVE SortFrom(_, _, _)
SortFrom(slots, i, j) ==
    IF i > Len(slots) THEN slots
    ELSE IF j > Len(slots) THEN SortFrom(slots, i + 1, i + 2)
    ELSE SortFrom(IF SortSwap(slots[i], slots[j]) THEN Swap(slots, i, j) ELSE slots,
                  i, j + 1)

\* the slots as they arrived
SortSlotsMutant(slots) == slots
SortSlots(slots) == SortFrom(slots, 1, 2)

\* slots[i].Start.Before(last.End) || slots[i].Start.Equal(last.End)
OverlapsOrAdjacentMutant(slot, last) == slot.Start < last.End
OverlapsOrAdjacentLoose(slot, last) == slot.Start <= last.End + 1
OverlapsOrAdjacentStart(slot, last) == slot.Start <= last.Start
OverlapsOrAdjacent(slot, last) == slot.Start < last.End \/ slot.Start = last.End

\* the scan with each slot compared to the slot before it, not to the merged one
RECURSIVE MergeFromMutant(_, _, _)
MergeFromMutant(slots, i, merged) ==
    IF i > Len(slots) THEN merged
    ELSE LET last == merged[Len(merged)] IN
         IF OverlapsOrAdjacent(slots[i], slots[i - 1])
         THEN MergeFromMutant(slots, i + 1,
                              IF slots[i].End > last.End
                              THEN [merged EXCEPT ![Len(merged)].End = slots[i].End]
                              ELSE merged)
         ELSE MergeFromMutant(slots, i + 1, Append(merged, slots[i]))

\* the scan with the merged end always set to the end of the slot merged in
RECURSIVE MergeFromShorten(_, _, _)
MergeFromShorten(slots, i, merged) ==
    IF i > Len(slots) THEN merged
    ELSE LET last == merged[Len(merged)] IN
         IF OverlapsOrAdjacent(slots[i], last)
         THEN MergeFromShorten(slots, i + 1,
                               [merged EXCEPT ![Len(merged)].End = slots[i].End])
         ELSE MergeFromShorten(slots, i + 1, Append(merged, slots[i]))

\* the scan of mergeTimeSlots over the sorted slots, from index i
RECURSIVE MergeFrom(_, _, _)
MergeFrom(slots, i, merged) ==
    IF i > Len(slots) THEN merged
    ELSE LET last == merged[Len(merged)] IN
         IF OverlapsOrAdjacent(slots[i], last)
         THEN MergeFrom(slots, i + 1,
                        IF slots[i].End > last.End
                        THEN [merged EXCEPT ![Len(merged)].End = slots[i].End]
                        ELSE merged)
         ELSE MergeFrom(slots, i + 1, Append(merged, slots[i]))

mergeTimeSlots(slots) ==
    IF Len(slots) = 0 THEN slots
    ELSE LET sorted == SortSlots(slots) IN MergeFrom(sorted, 2, <<sorted[1]>>)

(***************************************************************************)
(* Strings, strings.Split(s, ":") and fmt.Sscanf(s, "%d", &n)              *)
(***************************************************************************)
Digits == <<"0", "1", "2", "3", "4", "5", "6", "7", "8", "9">>

IsDigit(c) == \E i \in 1..Len(Digits) : Digits[i] = c

DigitVal(c) == (CHOOSE i \in 1..Len(Digits) : Digits[i] = c) - 1

\* strings.Split(timeStr, ":"): one more part than there are colons
RECURSIVE SplitFrom(_, _, _)
SplitFrom(str, i, parts) ==
    IF i > Len(str) THEN parts
    ELSE IF str[i] = ":"
         THEN SplitFrom(str, i + 1, Append(parts, <<>>))
         ELSE SplitFrom(str, i + 1,
                        [parts EXCEPT ![Len(parts)] = Append(parts[Len(parts)], str[i])])

Split(str) == SplitFrom(str, 1, <<<<>>>>)

\* the digits of str from index i on, read as a decimal number continuing acc
RECURSIVE ScanDigits(_, _, _)
ScanDigits(str, i, acc) ==
    IF i <= Len(str) /\ IsDigit(str[i])
    THEN ScanDigits(str, i + 1, acc * 10 + DigitVal(str[i]))
    ELSE acc

\* fmt.Sscanf(str, "%d", &n): an optional sign, then at least one digit; what
\* follows the digits is left unread. (White space, which Sscanf skips, is not
\* in the alphabet of the model.)
Sscanf(str) ==
    LET signed == Len(str) >= 1 /\ str[1] \in {"+", "-"}
        first  == IF signed THEN 2 ELSE 1
        ok     == first <= Len(str) /\ IsDigit(str[first])
        n      == ScanDigits(str, first, 0)
    IN  [err |-> ~ok,
         n   |-> IF ~ok THEN 0 ELSE IF signed /\ str[1] = "-" THEN 0 - n ELSE n]

(***************************************************************************)
(* parseTimeString                                                         *)
(***************************************************************************)
DefaultHour == 9
DefaultMinute == 0

parseTimeString(timeStr) ==
    LET parts == Split(timeStr) IN
    IF Len(parts) # 2 THEN [hour |-> DefaultHour, minute |-> DefaultMinute]
    ELSE LET h == Sscanf(parts[1])
             m == Sscanf(parts[2])
         IN  [hour   |-> IF h.err THEN DefaultHour ELSE h.n,
              minute |-> IF m.err THEN DefaultMinute ELSE m.n]

(***************************************************************************)
(* findAvailableSlots, one loop iteration at a time.  A frame f holds the  *)
(* locals of the call and q its arguments.                                 *)
(***************************************************************************)
SlotStep == 30

Request(startDate, endDate, busySlots, duration, limit) ==
    [startDate |-> startDate, endDate |-> endDate, busySlots |-> busySlots,
     duration |-> duration, maxResults |-> limit]

\* the entry of findAvailableSlots: the parsed working hours, currentDate
FindEntry(q, workStart, workEnd) ==
    LET ws == parseTimeString(workStart)
        we == parseTimeString(workEnd)
    IN  [pc |-> "outer",
         workStartHour |-> ws.hour, workStartMin |-> ws.minute,
         workEndHour |-> we.hour, workEndMin |-> we.minute,
         currentDate |-> q.startDate,
         dayStart |-> q.startDate, dayEnd |-> q.startDate,
         currentTime |-> q.startDate,
         availableSlots |-> <<>>]

\* for currentDate.Before(endDate) && len(availableSlots) < maxResults
OuterContinuesMutant(f, q) == f.currentDate < q.endDate
OuterContinues(f, q) ==
    f.currentDate < q.endDate /\ Len(f.availableSlots) < q.maxResults

IsWeekend(t) == Weekday(t) = Saturday \/ Weekday(t) = Sunday

\* dayStart, with "Ensure we don't go before the start date"
DayStartMutant(f, q) == Date(DayOf(f.currentDate), f.workStartHour, f.workStartMin)
DayStart(f, q) ==
    LET dayStart == Date(DayOf(f.currentDate), f.workStartHour, f.workStartMin)
    IN  IF dayStart < q.startDate THEN q.startDate ELSE dayStart

\* dayEnd, with "Ensure we don't go after the end date"
DayEnd(f, q) ==
    LET dayEnd == Date(DayOf(f.currentDate), f.workEndHour, f.workEndMin)
    IN  IF dayEnd > q.endDate THEN q.endDate ELSE dayEnd

\* the loop condition without its Equal
InnerContinuesMutant(f, q) == f.currentTime + q.duration < f.dayEnd

\* the loop condition on the cursor alone
InnerContinuesLoose(f, q) == f.currentTime <= f.dayEnd

\* for currentTime.Add(duration).Before(dayEnd) || currentTime.Add(duration).Equal(dayEnd)
InnerContinues(f, q) == f.currentTime + q.duration <= f.dayEnd

\* currentTime.Before(busySlot.End) && slotEnd.After(busySlot.Start)
ConflictsMutant(currentTime, slotEnd, busySlot) ==
    currentTime < busySlot.Start /\ slotEnd > busySlot.Start
ConflictsTouching(currentTime, slotEnd, busySlot) ==
    currentTime <= busySlot.End /\ slotEnd >= busySlot.Start
Conflicts(currentTime, slotEnd, busySlot) ==
    currentTime < busySlot.End /\ slotEnd > busySlot.Start

\* the index of the last busy slot the candidate conflicts with
FirstConflictMutant(f, q) ==
    LET hits == {i \in 1..Len(q.busySlots) :
                    Conflicts(f.currentTime, f.currentTime + q.duration, q.busySlots[i])}
    IN  IF hits = {} THEN 0 ELSE CHOOSE i \in hits : \A j \in hits : i >= j

\* the index of the first busy slot, in list order, the candidate conflicts
\* with; 0 when isAvailable stays true
FirstConflict(f, q) ==
    LET hits == {i \in 1..Len(q.busySlots) :
                    Conflicts(f.currentTime, f.currentTime + q.duration, q.busySlots[i])}
    IN  IF hits = {} THEN 0 ELSE CHOOSE i \in hits : \A j \in hits : i <= j

\* one iteration of the day loop
OuterStep(f, q) ==
    IF ~OuterContinues(f, q) THEN [f EXCEPT !.pc = "return"]
    ELSE IF IsWeekend(f.currentDate)
         THEN [f EXCEPT !.currentDate = AddDay(f.currentDate)]
         ELSE [f EXCEPT !.pc = "inner",
                        !.dayStart = DayStart(f, q),
                        !.dayEnd = DayEnd(f, q),
                        !.currentTime = DayStart(f, q)]

\* the slot appended when isAvailable
AcceptedSlotMutant(f, q) == timeSlot(f.currentTime, f.currentTime + SlotStep)
AcceptedSlot(f, q) == timeSlot(f.currentTime, f.currentTime + q.duration)

\* the cursor moved to the start of the conflicting busy slot
JumpToMutant(f, busySlot) == busySlot.Start

\* if busySlot.End.After(currentTime) { currentTime = busySlot.End }
JumpTo(f, busySlot) ==
    IF busySlot.End > f.currentTime THEN busySlot.End ELSE f.currentTime

\* the cursor moved on by the duration of the meeting
NextCandidateMutant(f, q) == f.currentTime + q.duration

\* currentTime = currentTime.Add(30 * time.Minute)
NextCandidate(f, q) == f.currentTime + SlotStep

\* one iteration of the scan of a day; leaving it (the loop condition fails,
\* or the break at maxResults) runs currentDate = currentDate.AddDate(0, 0, 1)
InnerStep(f, q) ==
    IF ~InnerContinues(f, q)
    THEN [f EXCEPT !.pc = "outer", !.currentDate = AddDay(f.currentDate)]
    ELSE LET i == FirstConflict(f, q) IN
         IF i # 0
         THEN [f EXCEPT !.currentTime = JumpTo(f, q.busySlots[i])]
         ELSE LET slots == Append(f.availableSlots, AcceptedSlot(f, q)) IN
              IF Len(slots) >= q.maxResults
              THEN [f EXCEPT !.availableSlots = slots, !.pc = "outer",
                             !.currentDate = AddDay(f.currentDate)]
              ELSE [f EXCEPT !.availableSlots = slots,
                             !.currentTime = NextCandidate(f, q)]

FindStep(f, q) ==
    IF f.pc = "outer" THEN OuterStep(f, q)
    ELSE IF f.pc = "inner" THEN InnerStep(f, q)
    ELSE f

RECURSIVE RunFrom(_, _)
RunFrom(f, q) == IF f.pc = "return" THEN f.availableSlots ELSE RunFrom(FindStep(f, q), q)

findAvailableSlots(startDate, endDate, busySlots, duration, workStart, workEnd, limit) ==
    LET q == Request(startDate, endDate, busySlots, duration, limit)
    IN  RunFrom(FindEntry(q, workStart, workEnd), q)

(***************************************************************************)
(* calendarFindTimeSlotHandler                                             *)
(***************************************************************************)
DefaultWorkStart == <<"0", "9", ":", "0", "0">>
DefaultWorkEnd == <<"1", "7", ":", "0", "0">>
DefaultMaxResults == 5

\* the frame of findAvailableSlots while it is not running
NoFrame == [pc |-> "idle"]

\* the arguments the handler passes to findAvailableSlots
Req == Request(args.startDate.t, args.endDate.t, mergedBusyTimes,
               args.durationMinutes, maxResults)

\* strings.ToLower: the ASCII letters are mapped, every other character is kept
UpperCase == <<"A", "B", "C", "D", "E", "F", "G", "H", "I", "J", "K", "L", "M",
               "N", "O", "P", "Q", "R", "S", "T", "U", "V", "W", "X", "Y", "Z">>
LowerCase == <<"a", "b", "c", "d", "e", "f", "g", "h", "i", "j", "k", "l", "m",
               "n", "o", "p", "q", "r", "s", "t", "u", "v", "w", "x", "y", "z">>

ToLower(str) ==
    [i \in 1..Len(str) |->
        IF \E k \in 1..Len(UpperCase) : UpperCase[k] = str[i]
        THEN LowerCase[CHOOSE k \in 1..Len(UpperCase) : UpperCase[k] = str[i]]
        ELSE str[i]]

\* strings.Contains(str, sub)
Contains(str, sub) ==
    \E i \in 0..(Len(str) - Len(sub)) : \A k \in 1..Len(sub) : str[i + k] = sub[k]

\* the room filter comparing the location as it is written
QualifiesCaseSensitive(event, room) ==
    /\ ~(room # <<>> /\ ~Contains(event.location, room))
    /\ event.timed

\* the room filter alone, without the test of the DateTime values
QualifiesUntimed(event, room) ==
    ~(room # <<>> /\ ~Contains(ToLower(event.location), ToLower(room)))

\* an event passes the room filter and carries both DateTime values
Qualifies(event, room) ==
    /\ ~(room # <<>> /\ ~Contains(ToLower(event.location), ToLower(room)))
    /\ event.timed

\* the busy intervals the events of one calendar add, in event order
RECURSIVE EventSlots(_, _)
EventSlots(items, room) ==
    IF items = <<>> THEN <<>>
    ELSE (IF Qualifies(Head(items), room)
          THEN <<timeSlot(Head(items).Start, Head(items).End)>> ELSE <<>>)
         \o EventSlots(Tail(items), room)

\* the busy records the events of one calendar add, in event order
RECURSIVE EventDetails(_, _, _)
EventDetails(items, room, calendarId) ==
    IF items = <<>> THEN <<>>
    ELSE (IF Qualifies(Head(items), room)
          THEN <<[Start |-> Head(items).Start, End |-> Head(items).End,
                  CalendarId |-> calendarId]>>
          ELSE <<>>)
         \o EventDetails(Tail(items), room, calendarId)

\* the defaults of the arguments, then start_date does not parse
InvalidStartDate ==
    /\ pc = "start"
    /\ ~args.startDate.ok
    /\ workingHoursStart' =
         IF args.workingHoursStart = <<>> THEN DefaultWorkStart ELSE args.workingHoursStart
    /\ workingHoursEnd' =
         IF args.workingHoursEnd = <<>> THEN DefaultWorkEnd ELSE args.workingHoursEnd
    /\ maxResults' = IF args.maxResults <= 0 THEN DefaultMaxResults ELSE args.maxResults
    /\ result' = [isError |-> TRUE, text |-> "Invalid start_date format"]
    /\ pc' = "done"
    /\ UNCHANGED <<args, calendar, calendarsToCheck, calIdx, allBusyTimes, busyDetails,
                   rawBusyTimes, mergedBusyTimes, fs>>

\* the defaults of the arguments, then end_date does not parse
InvalidEndDate ==
    /\ pc = "start"
    /\ args.startDate.ok
    /\ ~args.endDate.ok
    /\ workingHoursStart' =
         IF args.workingHoursStart = <<>> THEN DefaultWorkStart ELSE args.workingHoursStart
    /\ workingHoursEnd' =
         IF args.workingHoursEnd = <<>> THEN DefaultWorkEnd ELSE args.workingHoursEnd
    /\ maxResults' = IF args.maxResults <= 0 THEN DefaultMaxResults ELSE args.maxResults
    /\ result' = [isError |-> TRUE, text |-> "Invalid end_date format"]
    /\ pc' = "done"
    /\ UNCHANGED <<args, calendar, calendarsToCheck, calIdx, allBusyTimes, busyDetails,
                   rawBusyTimes, mergedBusyTimes, fs>>

\* the defaults of the arguments, both dates parse, the calendars to check
AcceptArguments ==
    /\ pc = "start"
    /\ args.startDate.ok
    /\ args.endDate.ok
    /\ workingHoursStart' =
         IF args.workingHoursStart = <<>> THEN DefaultWorkStart ELSE args.workingHoursStart
    /\ workingHoursEnd' =
         IF args.workingHoursEnd = <<>> THEN DefaultWorkEnd ELSE args.workingHoursEnd
    /\ maxResults' = IF args.maxResults <= 0 THEN DefaultMaxResults ELSE args.maxResults
    /\ calendarsToCheck' = <<"primary">> \o args.guests
    /\ calIdx' = 0
    /\ allBusyTimes' = <<>>
    /\ busyDetails' = <<>>
    /\ pc' = "fetch"
    /\ UNCHANGED <<args, calendar, rawBusyTimes, mergedBusyTimes, fs, result>>

\* the listing fails and the handler gives up
SkipCalendarMutant ==
    /\ pc = "fetch"
    /\ calIdx < Len(calendarsToCheck)
    /\ calendar[calendarsToCheck[calIdx + 1]].err
    /\ result' = [isError |-> TRUE, text |-> "failed to list events"]
    /\ pc' = "done"
    /\ UNCHANGED <<args, calendar, workingHoursStart, workingHoursEnd, maxResults,
                   calendarsToCheck, calIdx, allBusyTimes, busyDetails, rawBusyTimes,
                   mergedBusyTimes, fs>>

\* one iteration of the loop over calendarsToCheck: the listing fails
SkipCalendar ==
    /\ pc = "fetch"
    /\ calIdx < Len(calendarsToCheck)
    /\ calendar[calendarsToCheck[calIdx + 1]].err
    /\ calIdx' = calIdx + 1
    /\ UNCHANGED <<pc, args, calendar, workingHoursStart, workingHoursEnd, maxResults,
                   calendarsToCheck, allBusyTimes, busyDetails, rawBusyTimes,
                   mergedBusyTimes, fs, result>>

\* one iteration of the loop over calendarsToCheck: the events are collected
CollectCalendar ==
    /\ pc = "fetch"
    /\ calIdx < Len(calendarsToCheck)
    /\ LET calendarId == calendarsToCheck[calIdx + 1] IN
       /\ ~calendar[calendarId].err
       /\ allBusyTimes' = allBusyTimes \o EventSlots(calendar[calendarId].items, args.room)
       /\ busyDetails' =
            busyDetails \o EventDetails(calendar[calendarId].items, args.room, calendarId)
    /\ calIdx' = calIdx + 1
    /\ UNCHANGED <<pc, args, calendar, workingHoursStart, workingHoursEnd, maxResults,
                   calendarsToCheck, rawBusyTimes, mergedBusyTimes, fs, result>>

\* mergedBusyTimes := mergeTimeSlots(allBusyTimes), which sorts allBusyTimes in place
MergeBusyTimes ==
    /\ pc = "fetch"
    /\ calIdx = Len(calendarsToCheck)
    /\ rawBusyTimes' = allBusyTimes
    /\ allBusyTimes' = SortSlots(allBusyTimes)
    /\ mergedBusyTimes' = mergeTimeSlots(allBusyTimes)
    /\ pc' = "merged"
    /\ UNCHANGED <<args, calendar, workingHoursStart, workingHoursEnd, maxResults,
                   calendarsToCheck, calIdx, busyDetails, fs, result>>

\* the call of findAvailableSlots, up to its day loop
CallFindAvailableSlots ==
    /\ pc = "merged"
    /\ fs' = FindEntry(Req, workingHoursStart, workingHoursEnd)
    /\ pc' = "find"
    /\ UNCHANGED <<args, calendar, workingHoursStart, workingHoursEnd, maxResults,
                   calendarsToCheck, calIdx, allBusyTimes, busyDetails, rawBusyTimes,
                   mergedBusyTimes, result>>

handlerVars == <<pc, args, calendar, workingHoursStart, workingHoursEnd, maxResults,
                 calendarsToCheck, calIdx, allBusyTimes, busyDetails, rawBusyTimes,
                 mergedBusyTimes, result>>

\* the day loop ends: the range is exhausted or maxResults slots were found
DayLoopExit ==
    /\ pc = "find" /\ fs.pc = "outer"
    /\ ~OuterContinues(fs, Req)
    /\ fs' = FindStep(fs, Req)
    /\ UNCHANGED handlerVars

\* a Saturday or a Sunday is skipped
SkipWeekend ==
    /\ pc = "find" /\ fs.pc = "outer"
    /\ OuterContinues(fs, Req)
    /\ IsWeekend(fs.currentDate)
    /\ fs' = FindStep(fs, Req)
    /\ UNCHANGED handlerVars

\* a weekday: its window, clamped to the range
EnterDay ==
    /\ pc = "find" /\ fs.pc = "outer"
    /\ OuterContinues(fs, Req)
    /\ ~IsWeekend(fs.currentDate)
    /\ fs' = FindStep(fs, Req)
    /\ UNCHANGED handlerVars

\* the candidate no longer fits the window: on to the next day
LeaveDay ==
    /\ pc = "find" /\ fs.pc = "inner"
    /\ ~InnerContinues(fs, Req)
    /\ fs' = FindStep(fs, Req)
    /\ UNCHANGED handlerVars

\* the candidate conflicts with a busy slot: the cursor jumps to its end
JumpBusy ==
    /\ pc = "find" /\ fs.pc = "inner"
    /\ InnerContinues(fs, Req)
    /\ FirstConflict(fs, Req) # 0
    /\ fs' = FindStep(fs, Req)
    /\ UNCHANGED handlerVars

\* the candidate is free: it is appended (and at maxResults the scan breaks)
AcceptSlot ==
    /\ pc = "find" /\ fs.pc = "inner"
    /\ InnerContinues(fs, Req)
    /\ FirstConflict(fs, Req) = 0
    /\ fs' = FindStep(fs, Req)
    /\ UNCHANGED handlerVars

\* findAvailableSlots returns; the handler formats and returns the result
ReturnResult ==
    /\ pc = "find" /\ fs.pc = "return"
    /\ result' = [isError |-> FALSE,
                  available_slots |-> fs.availableSlots,
                  busy_times |-> busyDetails]
    /\ pc' = "done"
    /\ UNCHANGED <<args, calendar, workingHoursStart, workingHoursEnd, maxResults,
                   calendarsToCheck, calIdx, allBusyTimes, busyDetails, rawBusyTimes,
                   mergedBusyTimes, fs>>

Next ==
    \/ InvalidStartDate
    \/ InvalidEndDate
    \/ AcceptArguments
    \/ SkipCalendar
    \/ CollectCalendar
    \/ MergeBusyTimes
    \/ CallFindAvailableSlots
    \/ DayLoopExit
    \/ SkipWeekend
    \/ EnterDay
    \/ LeaveDay
    \/ JumpBusy
    \/ AcceptSlot
    \/ ReturnResult

(***************************************************************************)
(* calendarGetBusyTimesHandler                                             *)
(***************************************************************************)
\* the zero time.Time of a busyTime whose Start and End are not set: an
\* instant before every instant of the model
ZeroTime == Date(0 - 1, 0, 0)

\* the busyTime records the events of one calendar add, in event order
RECURSIVE BusyRecords(_, _)
BusyRecords(items, calendarId) ==
    IF items = <<>> THEN <<>>
    ELSE (IF Head(items).timed
          THEN <<[Start |-> Head(items).Start, End |-> Head(items).End,
                  Summary |-> "event.Summary", CalendarId |-> calendarId]>>
          ELSE <<>>)
         \o BusyRecords(Tail(items), calendarId)

\* start_date does not parse
BusyInvalidStartDate ==
    /\ pc = "busy_start"
    /\ ~args.startDate.ok
    /\ result' = [isError |-> TRUE, text |-> "Invalid start_date format"]
    /\ pc' = "done"
    /\ UNCHANGED <<args, calendar, workingHoursStart, workingHoursEnd, maxResults,
                   calendarsToCheck, calIdx, allBusyTimes, busyDetails, rawBusyTimes,
                   mergedBusyTimes, fs>>

\* end_date does not parse
BusyInvalidEndDate ==
    /\ pc = "busy_start"
    /\ args.startDate.ok
    /\ ~args.endDate.ok
    /\ result' = [isError |-> TRUE, text |-> "Invalid end_date format"]
    /\ pc' = "done"
    /\ UNCHANGED <<args, calendar, workingHoursStart, workingHoursEnd, maxResults,
                   calendarsToCheck, calIdx, allBusyTimes, busyDetails, rawBusyTimes,
                   mergedBusyTimes, fs>>

\* both dates parse; the calendars to check are the users, or primary alone
BusyAcceptArguments ==
    /\ pc = "busy_start"
    /\ args.startDate.ok
    /\ args.endDate.ok
    /\ calendarsToCheck' = IF args.users # <<>> THEN args.users ELSE <<"primary">>
    /\ calIdx' = 0
    /\ busyDetails' = <<>>
    /\ pc' = "busy_fetch"
    /\ UNCHANGED <<args, calendar, workingHoursStart, workingHoursEnd, maxResults,
                   allBusyTimes, rawBusyTimes, mergedBusyTimes, fs, result>>

\* the listing fails and nothing is recorded
BusyErrorCalendarMutant ==
    /\ pc = "busy_fetch"
    /\ calIdx < Len(calendarsToCheck)
    /\ calendar[calendarsToCheck[calIdx + 1]].err
    /\ calIdx' = calIdx + 1
    /\ UNCHANGED <<pc, args, calendar, workingHoursStart, workingHoursEnd, maxResults,
                   calendarsToCheck, allBusyTimes, busyDetails, rawBusyTimes,
                   mergedBusyTimes, fs, result>>

\* one iteration of the loop over calendarsToCheck: the listing fails and a
\* busyTime with the error text and the calendar id is appended
BusyErrorCalendar ==
    /\ pc = "busy_fetch"
    /\ calIdx < Len(calendarsToCheck)
    /\ calendar[calendarsToCheck[calIdx + 1]].err
    /\ busyDetails' = Append(busyDetails,
                             [Start |-> ZeroTime, End |-> ZeroTime,
                              Summary |-> "Error accessing calendar",
                              CalendarId |-> calendarsToCheck[calIdx + 1]])
    /\ calIdx' = calIdx + 1
    /\ UNCHANGED <<pc, args, calendar, workingHoursStart, workingHoursEnd, maxResults,
                   calendarsToCheck, allBusyTimes, rawBusyTimes, mergedBusyTimes, fs,
                   result>>

\* one iteration of the loop over calendarsToCheck: the events are collected
BusyCollectCalendar ==
    /\ pc = "busy_fetch"
    /\ calIdx < Len(calendarsToCheck)
    /\ LET calendarId == calendarsToCheck[calIdx + 1] IN
       /\ ~calendar[calendarId].err
       /\ busyDetails' = busyDetails \o BusyRecords(calendar[calendarId].items, calendarId)
    /\ calIdx' = calIdx + 1
    /\ UNCHANGED <<pc, args, calendar, workingHoursStart, workingHoursEnd, maxResults,
                   calendarsToCheck, allBusyTimes, rawBusyTimes, mergedBusyTimes, fs,
                   result>>

\* the records are sorted by start and the result is formatted and returned
BusyReturnResult ==
    /\ pc = "busy_fetch"
    /\ calIdx = Len(calendarsToCheck)
    /\ busyDetails' = SortSlots(busyDetails)
    /\ result' = [isError |-> FALSE,
                  calendars_checked |-> calendarsToCheck,
                  busy_times |-> SortSlots(busyDetails),
                  total_busy_times |-> Len(busyDetails)]
    /\ pc' = "done"
    /\ UNCHANGED <<args, calendar, workingHoursStart, workingHoursEnd, maxResults,
                   calendarsToCheck, calIdx, allBusyTimes, rawBusyTimes, mergedBusyTimes,
                   fs>>

\* the server handles a call of either tool
NextTools ==
    \/ Next
    \/ BusyInvalidStartDate
    \/ BusyInvalidEndDate
    \/ BusyAcceptArguments
    \/ BusyErrorCalendar
    \/ BusyCollectCalendar
    \/ BusyReturnResult

(***************************************************************************)
(* The calls checked: arguments and remote calendars                       *)
(***************************************************************************)
Str0900 == <<"0", "9", ":", "0", "0">>
Str1100 == <<"1", "1", ":", "0", "0">>
Str2500 == <<"2", "5", ":", "0", "0">>
StrJunk == <<"x">>

\* start_date and end_date as time.Parse(time.RFC3339, _) returns them
ParsedDate(t) == [ok |-> TRUE, t |-> t]
UnparsedDate == [ok |-> FALSE, t |-> 0]

\* range instants: 00:00 and 10:00 of the days 0..MaxDay (Saturday, Sunday,
\* Monday, Tuesday, ...)
RangeInstants == {Date(d, h, 0) : d \in 0..MaxDay, h \in {0, 10}}

Event(s, e) == [Start |-> s, End |-> e, timed |-> TRUE, location |-> <<>>]

\* event instants on the Monday morning
BusyInstants == {Date(2, 9, 0), Date(2, 9, 15), Date(2, 9, 45)}

BusyEvents == {Event(p[1], p[2]) : p \in {x \in BusyInstants \X BusyInstants : x[1] <= x[2]}}

\* an event from the Saturday to the Tuesday morning
LongEvent == Event(Date(0, 0, 0), Date(3, 9, 30))

\* the listings of one calendar: Events.List orders by start time
EventLists ==
    {l \in UNION {[1..n -> BusyEvents] : n \in 0..MaxEvents} :
        \A i \in 1..(Len(l) - 1) : l[i].Start <= l[i + 1].Start}

Arguments(hours, range, duration, limit) ==
    [guests |-> <<>>, room |-> <<>>,
     startDate |-> range[1], endDate |-> range[2],
     durationMinutes |-> duration,
     workingHoursStart |-> hours[1], workingHoursEnd |-> hours[2],
     maxResults |-> limit]

Ranges == {<<ParsedDate(s), ParsedDate(e)>> : s \in RangeInstants, e \in RangeInstants}

Readable(items) == [c \in {"primary"} |-> [err |-> FALSE, items |-> items]]
Unreadable == [c \in {"primary"} |-> [err |-> TRUE, items |-> <<>>]]

\* well-formed working hours and positive durations, against every listing
InitCore ==
    /\ args \in {Arguments(h, r, d, k) :
                    h \in {<<Str0900, Str1100>>, <<<<>>, <<>>>>},
                    r \in Ranges, d \in {30, 45}, k \in 0..MaxResultsArg}
    /\ calendar \in {Readable(l) : l \in EventLists}

\* every kind of working-hours string and of duration, against a few listings
InitEdge ==
    /\ args \in {Arguments(h, r, d, k) :
                    h \in {<<Str0900, Str1100>>, <<<<>>, <<>>>>, <<StrJunk, Str1100>>,
                           <<Str0900, StrJunk>>, <<Str1100, Str0900>>,
                           <<Str0900, Str2500>>},
                    r \in Ranges, d \in {0 - 1440, 0 - 30, 0, 30},
                    k \in {0, MaxResultsArg}}
    /\ calendar \in {Readable(<<>>), Unreadable,
                     Readable(<<Event(Date(2, 9, 15), Date(2, 9, 45))>>),
                     Readable(<<LongEvent>>)}

\* a date that does not parse
InitBadDate ==
    /\ args \in {Arguments(<<<<>>, <<>>>>, r, 30, 0) :
                    r \in {<<UnparsedDate, ParsedDate(0)>>, <<ParsedDate(0), UnparsedDate>>,
                           <<UnparsedDate, UnparsedDate>>}}
    /\ calendar = Readable(<<>>)

\* locations and a room filter that differ in case
StrAtlas == <<"A", "t", "l", "a", "s">>
StrInAtlas == <<"2", "/", "a", "T", "L", "A", "S">>
StrAtla == <<"A", "t", "l", "a">>
StrRoom == <<"A", "T", "L", "A", "S">>

\* events of the Monday with a location; the last is an all-day event, which
\* has dates and no DateTime values
EvAtlas == [Event(Date(2, 9, 0), Date(2, 9, 30)) EXCEPT !.location = StrAtlas]
EvInAtlas == [Event(Date(2, 9, 15), Date(2, 10, 0)) EXCEPT !.location = StrInAtlas]
EvAtla == [Event(Date(2, 9, 30), Date(2, 10, 15)) EXCEPT !.location = StrAtla]
EvNowhere == Event(Date(2, 10, 30), Date(2, 11, 0))
EvAllDay == [Event(Date(2, 0, 0), Date(3, 0, 0)) EXCEPT !.timed = FALSE,
                                                        !.location = StrAtlas]
\* an event of a calendar that cannot be listed
EvHidden == [Event(Date(2, 10, 0), Date(2, 10, 30)) EXCEPT !.location = StrAtlas]

GuestListings ==
    {<<>>, <<EvAtlas>>, <<EvAllDay>>, <<EvInAtlas, EvNowhere>>, <<EvAtla, EvNowhere>>,
     <<EvAllDay, EvAtlas, EvInAtlas, EvAtla, EvNowhere>>}

\* the user's calendar and two guests', each listed or failing, with and
\* without a room filter
InitGuests ==
    /\ args \in {[Arguments(<<Str0900, Str1100>>,
                            <<ParsedDate(Date(2, 0, 0)), ParsedDate(Date(3, 0, 0))>>, 30, 0)
                     EXCEPT !.guests = <<"g1", "g2">>, !.room = room] :
                    room \in {<<>>, StrRoom}}
    /\ calendar \in [{"primary", "g1", "g2"} ->
                        {[err |-> FALSE, items |-> l] : l \in GuestListings}
                        \cup {[err |-> TRUE, items |-> <<EvHidden>>]}]

\* the Monday from 00:00 to the Tuesday 00:00, working hours 09:00-17:00, a
\* meeting of 60 minutes, one event from 10:00 to 11:00, every max_results up
\* to more than the slots there are
Str1700 == <<"1", "7", ":", "0", "0">>
ExampleEvent == Event(Date(2, 10, 0), Date(2, 11, 0))
ExampleArguments(limit) ==
    Arguments(<<Str0900, Str1700>>,
              <<ParsedDate(Date(2, 0, 0)), ParsedDate(Date(3, 0, 0))>>, 60, limit)

InitExample ==
    /\ args \in {ExampleArguments(k) : k \in 0..14}
    /\ calendar = Readable(<<ExampleEvent>>)

\* short events of the Monday morning, between them gaps of 10 and of 30
\* minutes, and every set of them as the listing of the calendar; meetings
\* shorter than, equal to and longer than the step of the scan
GapEvents ==
    <<Event(Date(2, 9, 0), Date(2, 9, 15)), Event(Date(2, 9, 10), Date(2, 9, 20)),
      Event(Date(2, 9, 15), Date(2, 9, 30)), Event(Date(2, 9, 30), Date(2, 9, 40)),
      Event(Date(2, 9, 45), Date(2, 10, 0)), Event(Date(2, 10, 0), Date(2, 10, 30))>>

\* the events of GapEvents whose index is in the set, in the order of their start
RECURSIVE GapListing(_, _)
GapListing(set, i) ==
    IF i > Len(GapEvents) THEN <<>>
    ELSE (IF i \in set THEN <<GapEvents[i]>> ELSE <<>>) \o GapListing(set, i + 1)

InitGaps ==
    /\ args \in {Arguments(<<Str0900, Str1100>>,
                           <<ParsedDate(Date(2, 0, 0)), ParsedDate(Date(3, 0, 0))>>, d, 8) :
                    d \in {10, 30, 60}}
    /\ calendar \in {Readable(GapListing(set, 1)) : set \in SUBSET (1..Len(GapEvents))}

\* working hours beyond the end of the day
Str2600 == <<"2", "6", ":", "0", "0">>

InitLateHours ==
    /\ args \in {Arguments(<<Str2500, Str2600>>, r, 30, MaxResultsArg) : r \in Ranges}
    /\ calendar = Readable(<<>>)

InitLocals ==
    /\ pc = "start"
    /\ workingHoursStart = <<>>
    /\ workingHoursEnd = <<>>
    /\ maxResults = 0
    /\ calendarsToCheck = <<>>
    /\ calIdx = 0
    /\ allBusyTimes = <<>>
    /\ busyDetails = <<>>
    /\ rawBusyTimes = <<>>
    /\ mergedBusyTimes = <<>>
    /\ fs = NoFrame
    /\ result = [isError |-> FALSE]

Init ==
    (InitCore \/ InitEdge \/ InitBadDate \/ InitGuests \/ InitExample \/ InitGaps
     \/ InitLateHours) /\ InitLocals

Spec == Init /\ [][Next]_vars

\* the arguments of calendar_get_busy_times
BusyArguments(users, range) ==
    [users |-> users, startDate |-> range[1], endDate |-> range[2]]

\* a call of calendar_get_busy_times: no users, one, or two in either order,
\* each calendar listed or failing; or a date that does not parse
InitBusyTimes ==
    /\ pc = "busy_start"
    /\ \/ /\ args \in {BusyArguments(u, <<ParsedDate(Date(2, 0, 0)), ParsedDate(Date(3, 0, 0))>>) :
                         u \in {<<>>, <<"g1">>, <<"g1", "g2">>, <<"g2", "primary", "g1">>}}
          /\ calendar \in [{"primary", "g1", "g2"} ->
                              {[err |-> FALSE, items |-> l] : l \in GuestListings}
                              \cup {[err |-> TRUE, items |-> <<EvHidden>>]}]
       \/ /\ args \in {BusyArguments(<<>>, r) :
                         r \in {<<UnparsedDate, ParsedDate(0)>>, <<ParsedDate(0), UnparsedDate>>}}
          /\ calendar = Readable(<<>>)
    /\ workingHoursStart = <<>>
    /\ workingHoursEnd = <<>>
    /\ maxResults = 0
    /\ calendarsToCheck = <<>>
    /\ calIdx = 0
    /\ allBusyTimes = <<>>
    /\ busyDetails = <<>>
    /\ rawBusyTimes = <<>>
    /\ mergedBusyTimes = <<>>
    /\ fs = NoFrame
    /\ result = [isError |-> FALSE]

\* calls of every duration, zero and negative included, over every range,
\* against an event and against a calendar that cannot be listed; and the
\* dates that do not parse
InitLive ==
    /\ \/ /\ args \in {Arguments(h, r, d, MaxResultsArg) :
                         h \in {<<Str0900, Str1100>>, <<Str1100, StrJunk>>},
                         r \in Ranges, d \in {0 - 1440, 0 - 30, 0, 30}}
          /\ calendar \in {Readable(<<Event(Date(2, 9, 15), Date(2, 9, 45))>>), Unreadable}
       \/ InitBadDate
    /\ InitLocals

\* the handler is sequential code that runs to its return: a step that can
\* be taken is taken
SpecLive == InitLive /\ [][Next]_vars /\ WF_vars(Next)

InitTools == Init \/ InitBusyTimes

SpecTools == InitTools /\ [][NextTools]_vars

(***************************************************************************)
(* mergeTimeSlots on its own: the handler at the end of its fetch loop,    *)
(* with every list of up to MaxSlots intervals over 0..MaxT collected.     *)
(***************************************************************************)
Intervals == {timeSlot(p[1], p[2]) : p \in {x \in (0..MaxT) \X (0..MaxT) : x[1] <= x[2]}}

SlotLists == UNION {[1..n -> Intervals] : n \in 0..MaxSlots}

InitMerge ==
    /\ pc = "fetch"
    /\ args = Arguments(<<<<>>, <<>>>>, <<ParsedDate(0), ParsedDate(0)>>, 30, 0)
    /\ calendar = Readable(<<>>)
    /\ workingHoursStart = DefaultWorkStart
    /\ workingHoursEnd = DefaultWorkEnd
    /\ maxResults = DefaultMaxResults
    /\ calendarsToCheck = <<"primary">>
    /\ calIdx = 1
    /\ allBusyTimes \in SlotLists
    /\ busyDetails = <<>>
    /\ rawBusyTimes = <<>>
    /\ mergedBusyTimes = <<>>
    /\ fs = NoFrame
    /\ result = [isError |-> FALSE]

SpecMerge == InitMerge /\ [][MergeBusyTimes]_vars

(***************************************************************************)
(* Vocabulary of the properties                                            *)
(***************************************************************************)
Min(a, b) == IF a <= b THEN a ELSE b
Max(a, b) == IF a >= b THEN a ELSE b

\* findAvailableSlots has been entered
Scanning == fs.pc # "idle"

\* the arguments of the running call of findAvailableSlots
rangeStart == args.startDate.t
rangeEnd == args.endDate.t
duration == args.durationMinutes

\* the slots found so far, and the set of their indices
Found == fs.availableSlots
FoundIdx == 1..Len(fs.availableSlots)

\* t is covered by a slot of the list: as an instant of a closed interval, and
\* as the minute [t, t+1) of a half-open one
CoversInstant(slots, t) == \E i \in 1..Len(slots) : slots[i].Start <= t /\ t <= slots[i].End
CoversMinute(slots, t) == \E i \in 1..Len(slots) : slots[i].Start <= t /\ t < slots[i].End

\* HH:MM with hour 0-23 and minute 0-59
WellFormedTime(str) ==
    /\ Len(str) = 5
    /\ str[3] = ":"
    /\ \A i \in {1, 2, 4, 5} : IsDigit(str[i])
    /\ DigitVal(str[1]) * 10 + DigitVal(str[2]) <= 23
    /\ DigitVal(str[4]) * 10 + DigitVal(str[5]) <= 59

\* the working hours of the request are well-formed, start before end
WellFormedHours ==
    /\ WellFormedTime(workingHoursStart)
    /\ WellFormedTime(workingHoursEnd)
    /\ Date(0, fs.workStartHour, fs.workStartMin) < Date(0, fs.workEndHour, fs.workEndMin)

\* the working-hours window of the day of instant t
WorkStartOn(t) == Date(DayOf(t), fs.workStartHour, fs.workStartMin)
WorkEndOn(t) == Date(DayOf(t), fs.workEndHour, fs.workEndMin)

(***************************************************************************)
(* C1.  mergeTimeSlots returns, for intervals with start <= end, a list    *)
(* sorted by start, whose intervals share no time point, and which covers  *)
(* exactly the time the input intervals cover.                             *)
(***************************************************************************)
MergeSortedDisjointSameCoverage ==
    pc = "merged" =>
        /\ \A i \in 1..Len(mergedBusyTimes) : \A j \in 1..Len(mergedBusyTimes) :
              i < j => /\ mergedBusyTimes[i].Start <= mergedBusyTimes[j].Start
                       /\ mergedBusyTimes[i].End < mergedBusyTimes[j].Start
        /\ \A t \in 0..MaxT :
              /\ CoversInstant(mergedBusyTimes, t) <=> CoversInstant(rawBusyTimes, t)
              /\ CoversMinute(mergedBusyTimes, t) <=> CoversMinute(rawBusyTimes, t)

\* an unsorted input of three intervals, two of which are merged
MergeWitness ==
    /\ pc = "merged"
    /\ Len(rawBusyTimes) = 3
    /\ rawBusyTimes[1].Start > rawBusyTimes[2].Start
    /\ Len(mergedBusyTimes) = 2

(***************************************************************************)
(* C2.  No slot found overlaps a busy interval passed to                   *)
(* findAvailableSlots: never s.Start < b.End and s.End > b.Start.          *)
(***************************************************************************)
NoSlotOverlapsBusy ==
    Scanning =>
        \A i \in FoundIdx : \A k \in 1..Len(mergedBusyTimes) :
            ~(Found[i].Start < mergedBusyTimes[k].End
              /\ Found[i].End > mergedBusyTimes[k].Start)

\* a returned slot that begins where a busy interval of positive length ends
NoOverlapWitness ==
    /\ pc = "done" /\ ~result.isError
    /\ \E i \in 1..Len(result.available_slots) : \E k \in 1..Len(mergedBusyTimes) :
          /\ mergedBusyTimes[k].Start < mergedBusyTimes[k].End
          /\ result.available_slots[i].Start = mergedBusyTimes[k].End
          /\ result.available_slots[i].End > result.available_slots[i].Start

(***************************************************************************)
(* C3.  With well-formed working hours every slot found starts on a        *)
(* Monday-Friday date, lies inside that date's working-hours window, and   *)
(* neither starts nor ends on a Saturday or Sunday.                        *)
(***************************************************************************)
SlotInWorkingHours(slot) ==
    /\ ~IsWeekend(slot.Start)
    /\ ~IsWeekend(slot.End)
    /\ WorkStartOn(slot.Start) <= slot.Start
    /\ slot.End <= WorkEndOn(slot.Start)

SlotsInWorkingHours ==
    (Scanning /\ WellFormedHours) => \A i \in FoundIdx : SlotInWorkingHours(Found[i])

\* the same, for the requests with a positive duration only
SlotsInWorkingHoursPositive ==
    (Scanning /\ WellFormedHours /\ duration > 0) =>
        \A i \in FoundIdx : SlotInWorkingHours(Found[i])

(***************************************************************************)
(* C4.  The list returned under limit maxResults is the first              *)
(* min(N, maxResults) slots of the list of N slots the same scan returns   *)
(* without a limit.                                                        *)
(***************************************************************************)
Unlimited ==
    findAvailableSlots(rangeStart, rangeEnd, mergedBusyTimes, duration,
                       workingHoursStart, workingHoursEnd, NoLimit)

LimitOnlyTruncates ==
    (pc = "done" /\ ~result.isError) =>
        /\ Len(Unlimited) < NoLimit
        /\ Len(result.available_slots) = Min(Len(Unlimited), maxResults)
        /\ result.available_slots = SubSeq(Unlimited, 1, Min(Len(Unlimited), maxResults))

\* a scan cut short by the limit on a later day than its first slot
LimitWitness ==
    /\ pc = "done" /\ ~result.isError
    /\ Len(Unlimited) > maxResults
    /\ Len(result.available_slots) = maxResults
    /\ DayOf(result.available_slots[1].Start)
         < DayOf(result.available_slots[maxResults].Start)

(***************************************************************************)
(* C5.  A request with duration <= 0, or with rangeEnd before rangeStart,  *)
(* is rejected with an input error: findAvailableSlots is never entered    *)
(* and no slot list is returned for it.                                    *)
(***************************************************************************)
InvalidRequest ==
    /\ args.startDate.ok /\ args.endDate.ok
    /\ (duration <= 0 \/ rangeEnd < rangeStart)

InvalidRequestRejected ==
    InvalidRequest => (~Scanning /\ (pc = "done" => result.isError))

(***************************************************************************)
(* C6.  Each working-hours bound defaults on its own: an absent, empty or  *)
(* unparsable start string gives the window start 09:00, an absent, empty  *)
(* or unparsable end string gives the window end 17:00.                    *)
(***************************************************************************)
\* both parts of HH:MM are read as numbers
Parsable(str) ==
    /\ Len(Split(str)) = 2
    /\ ~Sscanf(Split(str)[1]).err
    /\ ~Sscanf(Split(str)[2]).err

WorkingHoursDefaultPerBound ==
    Scanning =>
        /\ ~Parsable(args.workingHoursStart) =>
              /\ fs.workStartHour = parseTimeString(DefaultWorkStart).hour
              /\ fs.workStartMin = parseTimeString(DefaultWorkStart).minute
        /\ ~Parsable(args.workingHoursEnd) =>
              /\ fs.workEndHour = parseTimeString(DefaultWorkEnd).hour
              /\ fs.workEndMin = parseTimeString(DefaultWorkEnd).minute

(***************************************************************************)
(* C7.  A weekday on which rangeEnd falls after the working-hours start is *)
(* scanned over [max(workStart, rangeStart), min(workEnd, rangeEnd)],      *)
(* whatever the time of day of rangeStart: when fewer than maxResults      *)
(* slots are returned and that window holds free time of the duration, a   *)
(* returned slot lies in it.  (Stated for well-formed working hours and a  *)
(* positive duration.)                                                     *)
(***************************************************************************)
\* a candidate of the duration starting at t, inside [lo, hi], is free
FreeAt(t, lo, hi) ==
    /\ lo <= t /\ t + duration <= hi
    /\ \A k \in 1..Len(mergedBusyTimes) :
          ~Conflicts(t, t + duration, mergedBusyTimes[k])

\* free time starts at the window start or where a busy interval ends
HasFreeTime(lo, hi) ==
    \E t \in {lo} \cup {mergedBusyTimes[k].End : k \in 1..Len(mergedBusyTimes)} :
        FreeAt(t, lo, hi)

LastDayScanned ==
    (/\ pc = "done" /\ ~result.isError
     /\ WellFormedHours /\ duration > 0
     /\ Len(result.available_slots) < maxResults
     /\ rangeStart <= rangeEnd
     /\ ~IsWeekend(rangeEnd)
     /\ WorkStartOn(rangeEnd) < rangeEnd) =>
        LET lo == Max(WorkStartOn(rangeEnd), rangeStart)
            hi == Min(WorkEndOn(rangeEnd), rangeEnd)
        IN  HasFreeTime(lo, hi) =>
                \E i \in 1..Len(result.available_slots) :
                    /\ lo <= result.available_slots[i].Start
                    /\ result.available_slots[i].End <= hi

(***************************************************************************)
(* C8.  For a positive duration every slot found lies inside the requested *)
(* range: rangeStart <= slot.Start and slot.End <= rangeEnd.               *)
(***************************************************************************)
SlotsInsideRange ==
    (Scanning /\ duration > 0) =>
        \A i \in FoundIdx : rangeStart <= Found[i].Start /\ Found[i].End <= rangeEnd

\* a slot that starts at rangeStart, later than the working-hours start of
\* its day
InsideRangeWitness ==
    /\ pc = "done" /\ ~result.isError /\ duration > 0
    /\ \E i \in 1..Len(result.available_slots) :
          /\ result.available_slots[i].Start = rangeStart
          /\ WorkStartOn(rangeStart) < rangeStart

\* a slot that ends at rangeEnd, earlier than the working-hours end of its day
InsideRangeEndReached ==
    /\ pc = "done" /\ ~result.isError /\ duration > 0
    /\ \E i \in 1..Len(result.available_slots) :
          /\ result.available_slots[i].End = rangeEnd
          /\ rangeEnd < WorkEndOn(rangeEnd)

(***************************************************************************)
(* C9.  Every slot found is exactly the duration long, also a slot         *)
(* accepted right after the cursor has jumped past a busy interval.        *)
(***************************************************************************)
SlotsExactlyDuration ==
    Scanning => \A i \in FoundIdx : Found[i].End - Found[i].Start = duration

\* a slot of 45 minutes accepted at the end of a busy interval, off the
\* 30-minute grid of its day
ExactDurationWitness ==
    /\ Scanning /\ fs.pc = "inner" /\ duration = 45
    /\ Len(Found) >= 1
    /\ \E k \in 1..Len(mergedBusyTimes) :
          /\ Found[Len(Found)].Start = mergedBusyTimes[k].End
          /\ (mergedBusyTimes[k].End - fs.dayStart) % SlotStep # 0

(***************************************************************************)
(* C10.  With well-formed working hours the slot start times increase      *)
(* strictly along the list, within a day and across days.                  *)
(***************************************************************************)
SlotsChronological ==
    (Scanning /\ WellFormedHours) =>
        \A i \in 1..(Len(Found) - 1) : Found[i].Start < Found[i + 1].Start

\* the same, for the requests with a positive duration only
SlotsChronologicalPositive ==
    (Scanning /\ WellFormedHours /\ duration > 0) =>
        \A i \in 1..(Len(Found) - 1) : Found[i].Start < Found[i + 1].Start

(***************************************************************************)
(* C11.  mergeTimeSlots is idempotent: merging the merged list again       *)
(* returns the merged list, element for element.                           *)
(***************************************************************************)
MergeIdempotent ==
    pc = "merged" => mergeTimeSlots(mergedBusyTimes) = mergedBusyTimes

\* three intervals, the third reaching back over the second into the first
MergeIdempotentWitness ==
    /\ pc = "merged"
    /\ Len(rawBusyTimes) = 3
    /\ Len(mergedBusyTimes) = 1
    /\ \E i \in 1..3 : \E j \in 1..3 :
          /\ rawBusyTimes[i].End < rawBusyTimes[j].Start
          /\ mergedBusyTimes[1].Start <= rawBusyTimes[i].Start
          /\ rawBusyTimes[j].End <= mergedBusyTimes[1].End

(***************************************************************************)
(* C12.  Intervals that exactly touch are merged: two collected intervals  *)
(* of which one ends at the instant the other starts lie in one merged     *)
(* interval, no merged interval starts at the end of another, and          *)
(* [09:00-10:00, 10:00-11:00] merges to [09:00-11:00].                     *)
(***************************************************************************)
SameMergedInterval(x, y) ==
    \E k \in 1..Len(mergedBusyTimes) :
        /\ mergedBusyTimes[k].Start <= x.Start /\ x.End <= mergedBusyTimes[k].End
        /\ mergedBusyTimes[k].Start <= y.Start /\ y.End <= mergedBusyTimes[k].End

TouchingIntervalsMerge ==
    /\ mergeTimeSlots(<<timeSlot(Date(2, 9, 0), Date(2, 10, 0)),
                        timeSlot(Date(2, 10, 0), Date(2, 11, 0))>>)
         = <<timeSlot(Date(2, 9, 0), Date(2, 11, 0))>>
    /\ pc = "merged" =>
          /\ \A i \in 1..Len(rawBusyTimes) : \A j \in 1..Len(rawBusyTimes) :
                rawBusyTimes[i].End = rawBusyTimes[j].Start
                    => SameMergedInterval(rawBusyTimes[i], rawBusyTimes[j])
          /\ \A i \in 1..Len(mergedBusyTimes) : \A j \in 1..Len(mergedBusyTimes) :
                i # j => mergedBusyTimes[i].End # mergedBusyTimes[j].Start

\* two intervals of positive length that only touch, merged into one
TouchingWitness ==
    /\ pc = "merged"
    /\ Len(rawBusyTimes) = 2
    /\ rawBusyTimes[1].Start < rawBusyTimes[1].End
    /\ rawBusyTimes[1].End = rawBusyTimes[2].Start
    /\ rawBusyTimes[2].Start < rawBusyTimes[2].End
    /\ Len(mergedBusyTimes) = 1

(***************************************************************************)
(* C13.  Intervals separated by a gap are never merged: when one collected *)
(* interval ends before another starts and no collected interval reaches   *)
(* into the time between them, the two lie in different merged intervals,  *)
(* and                                                                     *)
(* [09:00-10:00, 10:30-11:00] merges to the same two intervals.            *)
(***************************************************************************)
SeparatedIntervalsStaySeparate ==
    /\ mergeTimeSlots(<<timeSlot(Date(2, 9, 0), Date(2, 10, 0)),
                        timeSlot(Date(2, 10, 30), Date(2, 11, 0))>>)
         = <<timeSlot(Date(2, 9, 0), Date(2, 10, 0)),
             timeSlot(Date(2, 10, 30), Date(2, 11, 0))>>
    /\ pc = "merged" =>
          \A i \in 1..Len(rawBusyTimes) : \A j \in 1..Len(rawBusyTimes) :
              (rawBusyTimes[i].End < rawBusyTimes[j].Start
               /\ \A k \in 1..Len(rawBusyTimes) :
                     rawBusyTimes[k].End <= rawBusyTimes[i].End
                     \/ rawBusyTimes[k].Start >= rawBusyTimes[j].Start)
                  => ~SameMergedInterval(rawBusyTimes[i], rawBusyTimes[j])

\* two intervals one minute apart, both kept
SeparatedWitness ==
    /\ pc = "merged"
    /\ Len(rawBusyTimes) = 2
    /\ rawBusyTimes[1].End + 1 = rawBusyTimes[2].Start
    /\ mergedBusyTimes = rawBusyTimes

(***************************************************************************)
(* C14.  The merged list does not depend on the order in which the         *)
(* intervals were collected: every permutation of the collected list       *)
(* merges to the same list.                                                *)
(***************************************************************************)
Orderings(n) == {p \in [1..n -> 1..n] : \A i \in 1..n : \E j \in 1..n : p[j] = i}

MergeOrderIndependent ==
    pc = "merged" =>
        \A p \in Orderings(Len(rawBusyTimes)) :
            mergeTimeSlots([i \in 1..Len(rawBusyTimes) |-> rawBusyTimes[p[i]]])
                = mergedBusyTimes

\* collected out of start order, two intervals with one start and two ends
OrderWitness ==
    /\ pc = "merged"
    /\ Len(rawBusyTimes) = 3
    /\ rawBusyTimes[1].Start > rawBusyTimes[3].Start
    /\ rawBusyTimes[1].Start = rawBusyTimes[2].Start
    /\ rawBusyTimes[1].End < rawBusyTimes[2].End
    /\ Len(mergedBusyTimes) = 2

(***************************************************************************)
(* Vocabulary of the aggregation properties                                *)
(***************************************************************************)
\* the events of the n-th calendar to check, as its listing would return them
ItemsOf(n) == calendar[calendarsToCheck[n]].items

\* the listing of the n-th calendar to check succeeds
Fetched(n) == ~calendar[calendarsToCheck[n]].err

\* two characters that are one letter, whatever their case
SameLetter(c, d) ==
    \/ c = d
    \/ \E k \in 1..Len(UpperCase) : {c, d} = {UpperCase[k], LowerCase[k]}

\* sub occurs in str, case ignored
ContainsIgnoringCase(str, sub) ==
    \E i \in 0..(Len(str) - Len(sub)) : \A k \in 1..Len(sub) : SameLetter(str[i + k], sub[k])

\* the event has a start and an end instant and its location passes the filter
EventQualifies(e) ==
    /\ e.timed
    /\ args.room # <<>> => ContainsIgnoringCase(e.location, args.room)

\* the qualifying events of the listed calendars among the first n: pairs of
\* the index of the calendar and the index of the event in its listing
QualifyingEvents(n) ==
    UNION {{<<c, k>> : k \in {x \in 1..Len(ItemsOf(c)) : EventQualifies(ItemsOf(c)[x])}} :
             c \in {y \in 1..n : Fetched(y)}}

EventAt(p) == ItemsOf(p[1])[p[2]]

\* the instants at which an event of some calendar starts or ends
EventInstants ==
    UNION {UNION {{calendar[c].items[k].Start, calendar[c].items[k].End} :
                    k \in 1..Len(calendar[c].items)} : c \in DOMAIN calendar}

(***************************************************************************)
(* C15.  A calendar whose listing fails is skipped and never aborts the    *)
(* slot search: the merged busy list covers exactly the time of the        *)
(* qualifying events of the calendars that were listed, the slots are      *)
(* those found against it, and the result is not an error, whichever       *)
(* calendars fail.                                                         *)
(***************************************************************************)
FailedFetchSkipped ==
    (args.startDate.ok /\ args.endDate.ok) =>
        /\ pc \in {"merged", "find", "done"} =>
              \A t \in EventInstants :
                  /\ CoversInstant(mergedBusyTimes, t)
                       <=> \E p \in QualifyingEvents(Len(calendarsToCheck)) :
                               EventAt(p).Start <= t /\ t <= EventAt(p).End
                  /\ CoversMinute(mergedBusyTimes, t)
                       <=> \E p \in QualifyingEvents(Len(calendarsToCheck)) :
                               EventAt(p).Start <= t /\ t < EventAt(p).End
        /\ pc = "done" =>
              /\ ~result.isError
              /\ result.available_slots =
                   findAvailableSlots(rangeStart, rangeEnd, mergedBusyTimes, duration,
                                      workingHoursStart, workingHoursEnd, maxResults)
              /\ \A i \in 1..Len(result.available_slots) :
                    \A p \in QualifyingEvents(Len(calendarsToCheck)) :
                        ~(/\ result.available_slots[i].Start < EventAt(p).End
                          /\ EventAt(p).Start < result.available_slots[i].End)

\* one of three calendars fails; the other two are listed and keep a slot busy,
\* the time of the failing calendar's event is offered
FailedFetchWitness ==
    /\ pc = "done"
    /\ Len(calendarsToCheck) = 3
    /\ ~Fetched(2) /\ Fetched(1) /\ Fetched(3)
    /\ ItemsOf(1) # <<>> /\ ItemsOf(3) # <<>>
    /\ Len(mergedBusyTimes) = 2
    /\ \E i \in 1..Len(result.available_slots) :
          result.available_slots[i] = timeSlot(ItemsOf(2)[1].Start, ItemsOf(2)[1].End)

(***************************************************************************)
(* C17.  With a room filter, an event of a listed calendar gives a busy    *)
(* interval and a busy record exactly when it has a start and an end       *)
(* instant and its location contains the filter, case ignored; without a   *)
(* filter no event is dropped because of its location.                     *)
(***************************************************************************)
HasRecord(n, e) ==
    \E i \in 1..Len(busyDetails) :
        /\ busyDetails[i].CalendarId = calendarsToCheck[n]
        /\ busyDetails[i].Start = e.Start /\ busyDetails[i].End = e.End

HasInterval(e) ==
    \E i \in 1..Len(allBusyTimes) : allBusyTimes[i] = timeSlot(e.Start, e.End)

RoomFilterBySubstring ==
    pc = "fetch" =>
        \A n \in {y \in 1..calIdx : Fetched(y)} : \A k \in 1..Len(ItemsOf(n)) :
            LET e == ItemsOf(n)[k] IN
            /\ args.room # <<>> =>
                  /\ HasRecord(n, e) <=> (e.timed /\ ContainsIgnoringCase(e.location, args.room))
                  /\ HasInterval(e) <=> (e.timed /\ ContainsIgnoringCase(e.location, args.room))
            /\ args.room = <<>> => (e.timed => HasRecord(n, e) /\ HasInterval(e))

\* a listing with the filter in another case, inside a longer location, cut
\* short, and with no location at all: two events kept, two dropped
RoomFilterWitness ==
    /\ pc = "fetch"
    /\ calIdx = 1
    /\ Fetched(1)
    /\ args.room = StrRoom
    /\ Len(ItemsOf(1)) = 5
    /\ Len(busyDetails) = 2
    /\ busyDetails[1].Start = EvAtlas.Start
    /\ busyDetails[2].Start = EvInAtlas.Start

(***************************************************************************)
(* C18.  An event without a start or an end instant contributes nothing,   *)
(* and every qualifying event contributes one interval and one record:     *)
(* before the merge there are as many busy records as collected intervals  *)
(* and as qualifying events, and the i-th record has the start and the     *)
(* end of the i-th interval.                                               *)
(***************************************************************************)
OneIntervalAndRecordPerEvent ==
    pc = "fetch" =>
        /\ Len(allBusyTimes) = Cardinality(QualifyingEvents(calIdx))
        /\ Len(busyDetails) = Len(allBusyTimes)
        /\ \A i \in 1..Len(allBusyTimes) :
              /\ busyDetails[i].Start = allBusyTimes[i].Start
              /\ busyDetails[i].End = allBusyTimes[i].End
        /\ \A n \in 1..calIdx : \A k \in 1..Len(ItemsOf(n)) :
              ~ItemsOf(n)[k].timed => ~HasRecord(n, ItemsOf(n)[k]) /\ ~HasInterval(ItemsOf(n)[k])

\* all three calendars listed without a filter, an all-day event among their
\* events, the same event collected from two calendars
OneIntervalWitness ==
    /\ pc = "fetch"
    /\ calIdx = 3
    /\ args.room = <<>>
    /\ \E n \in 1..3 : \E k \in 1..Len(ItemsOf(n)) : Fetched(n) /\ ~ItemsOf(n)[k].timed
    /\ Len(allBusyTimes) = 6
    /\ allBusyTimes[1] = allBusyTimes[2]

(***************************************************************************)
(* C16.  A calendar that cannot be listed leaves no busy record in the     *)
(* slot search.  In the get-busy-times listing it leaves exactly one       *)
(* record, with the error text, the calendar id and no start or end, and   *)
(* that record is counted in total_busy_times beside the records of the    *)
(* events of the listed calendars.                                         *)
(***************************************************************************)
\* the records of the result that carry the id of the n-th calendar to check
RecordsOf(n) ==
    {i \in 1..Len(result.busy_times) : result.busy_times[i].CalendarId = calendarsToCheck[n]}

\* what the listing of calendar_get_busy_times collects: every event with a
\* start and an end instant, of the listed calendars
TimedEvents ==
    UNION {{<<c, k>> : k \in {x \in 1..Len(ItemsOf(c)) : ItemsOf(c)[x].timed}} :
             c \in {y \in 1..Len(calendarsToCheck) : Fetched(y)}}

\* a result of the slot search, and one of the get-busy-times listing
SearchDone == pc = "done" /\ ~result.isError /\ fs.pc # "idle"
ListingDone == pc = "done" /\ ~result.isError /\ fs.pc = "idle"

\* the statement of the claim: failing calendars leave no record anywhere
FailedCalendarOnlyOmitted ==
    /\ SearchDone =>
          /\ \A n \in 1..Len(calendarsToCheck) : ~Fetched(n) => RecordsOf(n) = {}
          /\ Len(result.busy_times) = Cardinality(QualifyingEvents(Len(calendarsToCheck)))
    /\ ListingDone =>
          /\ \A n \in 1..Len(calendarsToCheck) : ~Fetched(n) => RecordsOf(n) = {}
          /\ Len(result.busy_times) = Cardinality(TimedEvents)
          /\ result.total_busy_times = Cardinality(TimedEvents)

FailedCalendarOmittedOrReported ==
    /\ SearchDone =>
          /\ \A n \in 1..Len(calendarsToCheck) : ~Fetched(n) => RecordsOf(n) = {}
          /\ Len(result.busy_times) = Cardinality(QualifyingEvents(Len(calendarsToCheck)))
    /\ ListingDone =>
          /\ \A n \in 1..Len(calendarsToCheck) :
                ~Fetched(n) =>
                    /\ Cardinality(RecordsOf(n)) = 1
                    /\ \A i \in RecordsOf(n) :
                          /\ result.busy_times[i].Summary = "Error accessing calendar"
                          /\ result.busy_times[i].Start = ZeroTime
                          /\ result.busy_times[i].End = ZeroTime
          /\ Len(result.busy_times) =
               Cardinality(TimedEvents)
               + Cardinality({n \in 1..Len(calendarsToCheck) : ~Fetched(n)})
          /\ result.total_busy_times = Len(result.busy_times)

\* a listing of three calendars of which one fails: its record comes first,
\* before the records of the events of the other two
FailedCalendarWitness ==
    /\ ListingDone
    /\ Len(calendarsToCheck) = 3
    /\ Fetched(1) /\ ~Fetched(2) /\ Fetched(3)
    /\ result.total_busy_times = 4
    /\ result.busy_times[1].CalendarId = calendarsToCheck[2]
    /\ result.busy_times[1].Summary = "Error accessing calendar"
    /\ \A i \in 2..4 : result.busy_times[i].Start > ZeroTime

(***************************************************************************)
(* C19.  For the Monday 00:00 to the Tuesday 00:00, working hours          *)
(* 09:00-17:00, a duration of 60 minutes and the busy list [10:00-11:00],  *)
(* the slots are 09:00-10:00, then 11:00-12:00, 11:30-12:30 and so on in   *)
(* steps of 30 minutes up to 16:00-17:00, with no slot starting at 09:30,  *)
(* 10:00 or 10:30; a smaller max_results returns the first slots of that   *)
(* list.                                                                   *)
(***************************************************************************)
ExampleSlots ==
    <<timeSlot(Date(2, 9, 0), Date(2, 10, 0))>>
    \o [i \in 1..11 |-> timeSlot(Date(2, 11, 30 * (i - 1)), Date(2, 12, 30 * (i - 1)))]

IsExample == calendar = Readable(<<ExampleEvent>>) /\ args = ExampleArguments(args.maxResults)

ExampleResult ==
    (pc = "done" /\ IsExample) =>
          /\ findAvailableSlots(Date(2, 0, 0), Date(3, 0, 0),
                                <<timeSlot(Date(2, 10, 0), Date(2, 11, 0))>>, 60,
                                Str0900, Str1700, NoLimit) = ExampleSlots
          /\ mergedBusyTimes = <<timeSlot(Date(2, 10, 0), Date(2, 11, 0))>>
          /\ result.available_slots = SubSeq(ExampleSlots, 1, Min(maxResults, Len(ExampleSlots)))
          /\ \A i \in 1..Len(result.available_slots) :
                result.available_slots[i].Start
                    \notin {Date(2, 9, 30), Date(2, 10, 0), Date(2, 10, 30)}

\* the whole list, ending with 16:00-17:00, under a max_results beyond it
ExampleWitness ==
    /\ pc = "done" /\ IsExample
    /\ maxResults > Len(result.available_slots)
    /\ Len(result.available_slots) = 12
    /\ result.available_slots[12] = timeSlot(Date(2, 16, 0), Date(2, 17, 0))

\* max_results cutting the list after 11:30-12:30
ExamplePrefixWitness ==
    /\ pc = "done" /\ IsExample
    /\ maxResults = 3
    /\ result.available_slots[3] = timeSlot(Date(2, 11, 30), Date(2, 12, 30))

(***************************************************************************)
(* C20.  findAvailableSlots terminates on every input, whatever the        *)
(* range, the busy list, the duration (zero and negative included) and     *)
(* maxResults: a call that was entered returns; an iteration of the scan   *)
(* of a day that stays in the day moves the cursor strictly forward; and   *)
(* leaving a day, as skipping a weekend day, moves the date one day on.    *)
(***************************************************************************)
FindTerminates ==
    /\ (pc = "find") ~> (fs.pc = "return")
    /\ [][(fs.pc = "inner" /\ fs'.pc = "inner") => fs'.currentTime > fs.currentTime]_vars
    /\ [][(fs.pc = "inner" /\ fs'.pc = "outer")
             => fs'.currentDate = AddDay(fs.currentDate)]_vars
    /\ [][(fs.pc = "outer" /\ fs'.pc = "outer")
             => fs'.currentDate = AddDay(fs.currentDate)]_vars
    /\ [][(fs.pc = "outer" /\ fs'.pc = "inner")
             => fs'.currentDate = fs.currentDate]_vars

\* a call with duration zero has returned: the cursor was moved on by 30
\* minutes, then over a busy slot, and the search ended at maxResults
FindTerminatesWitness ==
    /\ fs.pc = "return"
    /\ duration = 0
    /\ Len(mergedBusyTimes) = 1
    /\ Len(Found) = maxResults
    /\ Found[1].Start < mergedBusyTimes[1].Start
    /\ Found[2].Start = mergedBusyTimes[1].End

\* a call with a negative duration has returned because the range was exhausted
FindTerminatesRangeExhausted ==
    /\ fs.pc = "return"
    /\ duration < 0
    /\ Len(Found) < maxResults
    /\ ~(fs.currentDate < rangeEnd)
    /\ rangeStart < rangeEnd

(***************************************************************************)
(* C25.  The merged list is minimal: consecutive merged intervals neither  *)
(* overlap nor touch, the merged list is not longer than the collected     *)
(* list, it has one interval for each connected stretch of busy time, and  *)
(* no list of fewer intervals covers the same time.                        *)
(***************************************************************************)
\* the instants at which a connected stretch of collected busy time begins
StretchStarts ==
    {t \in 0..MaxT : CoversInstant(rawBusyTimes, t) /\ ~CoversMinute(rawBusyTimes, t - 1)}

SameCoverage(a, b) ==
    \A t \in 0..MaxT : /\ CoversInstant(a, t) <=> CoversInstant(b, t)
                       /\ CoversMinute(a, t) <=> CoversMinute(b, t)

MergedMinimal ==
    pc = "merged" =>
        /\ \A i \in 1..(Len(mergedBusyTimes) - 1) :
              mergedBusyTimes[i].End < mergedBusyTimes[i + 1].Start
        /\ Len(mergedBusyTimes) <= Len(rawBusyTimes)
        /\ Len(mergedBusyTimes) = Cardinality(StretchStarts)
        /\ \A l \in UNION {[1..n -> Intervals] : n \in 0..(Len(mergedBusyTimes) - 1)} :
              ~SameCoverage(l, rawBusyTimes)

\* three collected intervals, two of them touching, merged into two
MergedMinimalWitness ==
    /\ pc = "merged"
    /\ Len(rawBusyTimes) = 3
    /\ Len(mergedBusyTimes) = 2
    /\ \E i \in 1..3 : \E j \in 1..3 :
          /\ rawBusyTimes[i].Start < rawBusyTimes[i].End
          /\ rawBusyTimes[i].End = rawBusyTimes[j].Start
          /\ rawBusyTimes[j].Start < rawBusyTimes[j].End

(***************************************************************************)
(* C26.  Edge cases of the merge: nothing collected gives an empty list;   *)
(* one interval is returned as it is; intervals that form one connected    *)
(* stretch, an interval lying inside an earlier one included, give the     *)
(* single interval from the least start to the greatest end.               *)
(***************************************************************************)
LeastStart == CHOOSE t \in 0..MaxT :
    /\ \E i \in 1..Len(rawBusyTimes) : rawBusyTimes[i].Start = t
    /\ \A i \in 1..Len(rawBusyTimes) : rawBusyTimes[i].Start >= t

GreatestEnd == CHOOSE t \in 0..MaxT :
    /\ \E i \in 1..Len(rawBusyTimes) : rawBusyTimes[i].End = t
    /\ \A i \in 1..Len(rawBusyTimes) : rawBusyTimes[i].End <= t

MergeEdgeCases ==
    pc = "merged" =>
        /\ rawBusyTimes = <<>> => mergedBusyTimes = <<>>
        /\ Len(rawBusyTimes) = 1 => mergedBusyTimes = rawBusyTimes
        /\ (/\ Len(rawBusyTimes) >= 1
            /\ \A t \in LeastStart..(GreatestEnd - 1) : CoversMinute(rawBusyTimes, t))
              => mergedBusyTimes = <<timeSlot(LeastStart, GreatestEnd)>>

\* a long interval collected after one that starts with it and before one
\* that lies inside it
MergeEdgeWitness ==
    /\ pc = "merged"
    /\ Len(rawBusyTimes) = 3
    /\ Len(mergedBusyTimes) = 1
    /\ rawBusyTimes[2].Start = rawBusyTimes[1].Start
    /\ rawBusyTimes[2].End > rawBusyTimes[1].End
    /\ rawBusyTimes[3].Start > rawBusyTimes[2].Start
    /\ rawBusyTimes[3].End < rawBusyTimes[2].End

(***************************************************************************)
(* C27.  With a stable sort on start in place of the exchange sort, the    *)
(* merge returns the same list (and findAvailableSlots, which is given     *)
(* that list, the same slots), for every collected list.                   *)
(***************************************************************************)
\* the order of a stable sort on start: by start, then by position
StableOrder(slots) ==
    CHOOSE p \in Orderings(Len(slots)) :
        \A i \in 1..(Len(slots) - 1) :
            \/ slots[p[i]].Start < slots[p[i + 1]].Start
            \/ slots[p[i]].Start = slots[p[i + 1]].Start /\ p[i] < p[i + 1]

StableSorted(slots) == [i \in 1..Len(slots) |-> slots[StableOrder(slots)[i]]]

StableSortSameMerge ==
    (pc = "merged" /\ rawBusyTimes # <<>>) =>
        MergeFrom(StableSorted(rawBusyTimes), 2, <<StableSorted(rawBusyTimes)[1]>>)
            = mergedBusyTimes

\* the exchange sort has put two intervals of one start in the other order
\* than a stable sort does
StableSortWitness ==
    /\ pc = "merged"
    /\ Len(rawBusyTimes) = 3
    /\ allBusyTimes # StableSorted(rawBusyTimes)
    /\ Len(mergedBusyTimes) = 2

(***************************************************************************)
(* C30.  The get-busy-times listing holds the collected records, each      *)
(* once, in non-decreasing order of start, and records with equal start    *)
(* are in the order in which their calendars were fetched.                 *)
(***************************************************************************)
\* the position in calendarsToCheck of the calendar of a record
CalendarIndex(r) == CHOOSE n \in 1..Len(calendarsToCheck) : calendarsToCheck[n] = r.CalendarId

\* how many records the fetch loop collects that are equal to r
CollectedCount(r) ==
    Cardinality({p \in TimedEvents :
                    /\ calendarsToCheck[p[1]] = r.CalendarId
                    /\ EventAt(p).Start = r.Start /\ EventAt(p).End = r.End
                    /\ r.Summary = "event.Summary"})
    + Cardinality({n \in 1..Len(calendarsToCheck) :
                    /\ ~Fetched(n) /\ calendarsToCheck[n] = r.CalendarId
                    /\ r.Start = ZeroTime /\ r.End = ZeroTime
                    /\ r.Summary = "Error accessing calendar"})

\* the listing is sorted by start and holds exactly the collected records
ListingSortedPermutation ==
    ListingDone =>
        /\ \A i \in 1..(Len(result.busy_times) - 1) :
              result.busy_times[i].Start <= result.busy_times[i + 1].Start
        /\ \A i \in 1..Len(result.busy_times) :
              Cardinality({j \in 1..Len(result.busy_times) :
                              result.busy_times[j] = result.busy_times[i]})
                  = CollectedCount(result.busy_times[i])
        /\ Len(result.busy_times) =
               Cardinality(TimedEvents)
               + Cardinality({n \in 1..Len(calendarsToCheck) : ~Fetched(n)})

ListingSortedStable ==
    /\ ListingSortedPermutation
    /\ ListingDone =>
          \A i \in 1..Len(result.busy_times) : \A j \in 1..Len(result.busy_times) :
              (i < j /\ result.busy_times[i].Start = result.busy_times[j].Start)
                  => CalendarIndex(result.busy_times[i]) <= CalendarIndex(result.busy_times[j])

\* a listing of three calendars with events at different starts, sorted
ListingSortedWitness ==
    /\ ListingDone
    /\ Len(calendarsToCheck) = 3
    /\ Len(result.busy_times) = 5
    /\ CalendarIndex(result.busy_times[1]) = 3
    /\ CalendarIndex(result.busy_times[2]) = 2
    /\ result.busy_times[1].Start < result.busy_times[2].Start

(***************************************************************************)
(* Vocabulary of the scan properties                                       *)
(***************************************************************************)
\* the candidate at the cursor: its end, whether it fits the window of the
\* day, and whether it overlaps a busy interval
CandidateEnd == fs.currentTime + duration
CandidateFits == CandidateEnd <= fs.dayEnd
CandidateOverlaps(b) == fs.currentTime < b.End /\ CandidateEnd > b.Start
Overlapped == {i \in 1..Len(mergedBusyTimes) : CandidateOverlaps(mergedBusyTimes[i])}

\* the step records a slot
SlotRecorded == Len(fs'.availableSlots) = Len(fs.availableSlots) + 1

(***************************************************************************)
(* C21.  When the candidate at the cursor fits the window and conflicts    *)
(* with a busy interval, no slot is recorded, the cursor becomes the end   *)
(* of the first conflicting interval of the list, which is later than the  *)
(* cursor, and the scan of the day goes on from there; a slot is recorded  *)
(* only for a cursor whose candidate fits the window and overlaps no busy  *)
(* interval.                                                               *)
(***************************************************************************)
ConflictJump ==
    /\ [][(fs.pc = "inner" /\ CandidateFits /\ Overlapped # {}) =>
             /\ fs'.availableSlots = fs.availableSlots
             /\ \E i \in Overlapped :
                   /\ \A j \in Overlapped : i <= j
                   /\ fs'.currentTime = mergedBusyTimes[i].End
             /\ fs'.currentTime > fs.currentTime
             /\ fs'.pc = "inner"]_vars
    /\ [][(fs.pc = "inner" /\ SlotRecorded) =>
             /\ CandidateFits
             /\ Overlapped = {}
             /\ fs'.availableSlots[Len(fs'.availableSlots)].Start = fs.currentTime]_vars

\* a meeting of 60 minutes whose first candidate overlapped two busy
\* intervals: the cursor is at the end of the first
ConflictJumpWitness ==
    /\ fs.pc = "inner"
    /\ duration = 60
    /\ Len(mergedBusyTimes) >= 2
    /\ Found = <<>>
    /\ fs.dayStart < mergedBusyTimes[1].Start
    /\ mergedBusyTimes[2].Start < fs.dayStart + duration
    /\ fs.currentTime = mergedBusyTimes[1].End

(***************************************************************************)
(* C22.  After a slot is recorded the next candidate is 30 minutes later,  *)
(* whatever the duration: two consecutive slots of one day start at least  *)
(* 30 minutes apart, and with a duration above 30 minutes consecutive      *)
(* slots overlap.                                                          *)
(***************************************************************************)
SlotsHalfHourApart ==
    Scanning =>
        \A i \in 1..(Len(Found) - 1) :
            DayOf(Found[i].Start) = DayOf(Found[i + 1].Start)
                => Found[i + 1].Start - Found[i].Start >= 30

\* the step of 30 minutes after a recorded slot, and the distance of the
\* slots of one day for the durations the handler is specified to accept
StepAfterSlotPositive ==
    /\ [][(fs.pc = "inner" /\ fs'.pc = "inner" /\ SlotRecorded) =>
             fs'.currentTime = fs.currentTime + 30]_vars
    /\ []((Scanning /\ duration > 0) =>
             \A i \in 1..(Len(Found) - 1) :
                 DayOf(Found[i].Start) = DayOf(Found[i + 1].Start)
                     => Found[i + 1].Start - Found[i].Start >= 30)

\* two consecutive slots of a meeting longer than 30 minutes that overlap
StepAfterSlotWitness ==
    /\ Scanning
    /\ duration > 30
    /\ \E i \in 1..(Len(Found) - 1) :
          /\ Found[i + 1].Start = Found[i].Start + 30
          /\ Found[i + 1].Start < Found[i].End

(***************************************************************************)
(* C24.  Within a day the scan goes on exactly while the candidate ends    *)
(* at or before the end of the window, which is the end of the working     *)
(* hours of the day or the end of the range if that is earlier: a free     *)
(* candidate ending at the end of the window is recorded, no candidate     *)
(* ending after it is recorded, and once a candidate ends after it the     *)
(* search is at the next day and the date never goes back.                 *)
(***************************************************************************)
ScanWhileCandidateFits ==
    /\ [](fs.pc = "inner" => fs.dayEnd = Min(WorkEndOn(fs.currentDate), rangeEnd))
    /\ [][(fs.pc = "inner" /\ ~CandidateFits) =>
             /\ fs'.pc = "outer"
             /\ fs'.currentDate = AddDay(fs.currentDate)
             /\ fs'.availableSlots = fs.availableSlots]_vars
    /\ [][(fs.pc = "inner" /\ CandidateFits /\ Overlapped = {}) =>
             fs'.availableSlots = Append(fs.availableSlots,
                                         timeSlot(fs.currentTime, CandidateEnd))]_vars
    /\ [][(fs.pc = "inner" /\ CandidateFits /\ ~SlotRecorded) => fs'.pc = "inner"]_vars
    /\ [][(fs.pc = "inner" /\ SlotRecorded) => CandidateEnd <= fs.dayEnd]_vars
    /\ [][(fs.pc \in {"inner", "outer"} /\ fs'.pc \in {"inner", "outer"})
             => fs'.currentDate >= fs.currentDate]_vars

\* the last slot recorded ends at the end of the window, and the scan of the
\* day goes on with a candidate that ends after it
ScanToWindowEndWitness ==
    /\ fs.pc = "inner"
    /\ duration > 0
    /\ Len(Found) >= 2
    /\ Found[Len(Found)].End = fs.dayEnd
    /\ fs.dayEnd = WorkEndOn(fs.currentDate)
    /\ ~CandidateFits

(***************************************************************************)
(* Vocabulary of the free time of a scanned day                            *)
(***************************************************************************)
\* the days whose scan is entered: weekdays on which the date of the day
\* loop, which keeps the time of day of the start of the range, is before
\* the end of the range
ScannedDays ==
    {d \in DayOf(rangeStart)..DayOf(rangeEnd) :
        /\ rangeStart + (d - DayOf(rangeStart)) * 1440 < rangeEnd
        /\ Weekday(Date(d, 0, 0)) \notin {Saturday, Sunday}}

\* the window of day d: the working hours, cut to the range
WindowStart(d) == Max(WorkStartOn(Date(d, 0, 0)), rangeStart)
WindowEnd(d) == Min(WorkEndOn(Date(d, 0, 0)), rangeEnd)

\* free time begins at a: a is the start of the window or the end of a busy
\* interval, and no busy interval is running at a
FreeFrom(d, a) ==
    /\ \/ a = WindowStart(d)
       \/ \E i \in 1..Len(mergedBusyTimes) : mergedBusyTimes[i].End = a
    /\ WindowStart(d) <= a
    /\ \A i \in 1..Len(mergedBusyTimes) :
          ~(mergedBusyTimes[i].Start <= a /\ a < mergedBusyTimes[i].End)

\* the end of the free time that begins at a: the start of the next busy
\* interval, or the end of the window
FreeUntil(d, a) ==
    LET later == {mergedBusyTimes[i].Start : i \in {j \in 1..Len(mergedBusyTimes) :
                      mergedBusyTimes[j].Start >= a /\ mergedBusyTimes[j].End > a}}
    IN  IF \E t \in later : t <= WindowEnd(d)
        THEN CHOOSE t \in later : \A u \in later : t <= u
        ELSE WindowEnd(d)

FreeStarts(d) ==
    {a \in {WindowStart(d)} \cup {mergedBusyTimes[i].End : i \in 1..Len(mergedBusyTimes)} :
        FreeFrom(d, a)}

\* a returned slot lies in the free time from a to b
SlotWithin(a, b) ==
    \E i \in 1..Len(Found) : a <= Found[i].Start /\ Found[i].End <= b

(***************************************************************************)
(* C28.  The scan misses no usable free time: when the search has returned *)
(* fewer than maxResults slots, every maximal free interval of a scanned   *)
(* weekday's window that is at least as long as the duration contains a    *)
(* returned slot, for every positive duration.                             *)
(***************************************************************************)
NoFreeTimeMissed ==
    (fs.pc = "return" /\ duration > 0 /\ Len(Found) < maxResults) =>
        \A d \in ScannedDays : \A a \in FreeStarts(d) :
            FreeUntil(d, a) - a >= duration => SlotWithin(a, FreeUntil(d, a))

\* the same for the durations of at least the step of the scan
NoFreeTimeMissedFromStep ==
    (fs.pc = "return" /\ duration >= 30 /\ Len(Found) < maxResults) =>
        \A d \in ScannedDays : \A a \in FreeStarts(d) :
            FreeUntil(d, a) - a >= duration => SlotWithin(a, FreeUntil(d, a))

\* free time of exactly the duration between two busy intervals, returned
FreeTimeFoundWitness ==
    /\ fs.pc = "return" /\ duration >= 30 /\ Len(Found) < maxResults
    /\ Len(mergedBusyTimes) >= 2
    /\ \E d \in ScannedDays :
          /\ FreeFrom(d, mergedBusyTimes[1].End)
          /\ FreeUntil(d, mergedBusyTimes[1].End) = mergedBusyTimes[2].Start
          /\ mergedBusyTimes[2].Start - mergedBusyTimes[1].End = duration
          /\ SlotWithin(mergedBusyTimes[1].End, mergedBusyTimes[2].Start)

(***************************************************************************)
(* C23.  Touching at an endpoint is no conflict: a candidate starting      *)
(* exactly at the end of a busy interval, or ending exactly at the start   *)
(* of one, is accepted, so that a free gap of exactly the duration between *)
(* two busy intervals inside the working window is returned as a slot.     *)
(***************************************************************************)
\* the gap between the merged busy intervals i and i + 1 lies in the window
\* of day d and is exactly as long as the duration
ExactGap(d, i) ==
    /\ mergedBusyTimes[i + 1].Start - mergedBusyTimes[i].End = duration
    /\ WindowStart(d) <= mergedBusyTimes[i].End
    /\ mergedBusyTimes[i + 1].Start <= WindowEnd(d)

ExactGapReturned ==
    (fs.pc = "return" /\ duration > 0 /\ Len(Found) < maxResults) =>
        \A d \in ScannedDays : \A i \in 1..(Len(mergedBusyTimes) - 1) :
            ExactGap(d, i) =>
                \E k \in 1..Len(Found) :
                    Found[k] = timeSlot(mergedBusyTimes[i].End, mergedBusyTimes[i + 1].Start)

\* the first half of the sentence: a fitting candidate that at most touches
\* the busy intervals is recorded
TouchingAccepted ==
    [][(/\ fs.pc = "inner" /\ CandidateFits
        /\ \A i \in 1..Len(mergedBusyTimes) :
              \/ fs.currentTime >= mergedBusyTimes[i].End
              \/ CandidateEnd <= mergedBusyTimes[i].Start)
       => fs'.availableSlots = Append(fs.availableSlots, timeSlot(fs.currentTime, CandidateEnd))]_vars

\* the same gap for the durations of at least the step of the scan
ExactGapReturnedFromStep ==
    (fs.pc = "return" /\ duration >= 30 /\ Len(Found) < maxResults) =>
        \A d \in ScannedDays : \A i \in 1..(Len(mergedBusyTimes) - 1) :
            ExactGap(d, i) =>
                \E k \in 1..Len(Found) :
                    Found[k] = timeSlot(mergedBusyTimes[i].End, mergedBusyTimes[i + 1].Start)

\* a candidate that touches a busy interval at both of its ends, recorded
TouchingAcceptedWitness ==
    /\ fs.pc \in {"inner", "return"} /\ duration > 0
    /\ \E k \in 1..Len(Found) : \E i \in 1..(Len(mergedBusyTimes) - 1) :
          /\ Found[k].Start = mergedBusyTimes[i].End
          /\ Found[k].End = mergedBusyTimes[i + 1].Start

(***************************************************************************)
(* C29.  For every pair of working-hours strings that the parser accepts,  *)
(* the window of each day stays inside that calendar day (hour 0..23,      *)
(* minute 0..59), the windows of different days do not overlap, and no     *)
(* returned slot extends into the following day or lies on a weekend.      *)
(***************************************************************************)
\* parseTimeString takes the string as it is: two parts, each read as a number
Accepted(str) ==
    LET parts == Split(str)
    IN  /\ Len(parts) = 2
        /\ ~Sscanf(parts[1]).err
        /\ ~Sscanf(parts[2]).err

\* a slot that begins and ends on one weekday
OnOneWeekday(slot) ==
    /\ DayOf(slot.Start) = DayOf(slot.End)
    /\ Weekday(slot.Start) \notin {Saturday, Sunday}

WindowsInsideDay ==
    (Scanning /\ Accepted(workingHoursStart) /\ Accepted(workingHoursEnd)) =>
        /\ fs.workStartHour \in 0..23 /\ fs.workStartMin \in 0..59
        /\ fs.workEndHour \in 0..23 /\ fs.workEndMin \in 0..59
        /\ Date(0, fs.workEndHour, fs.workEndMin) <= Date(1, fs.workStartHour, fs.workStartMin)
        /\ duration > 0 => \A k \in FoundIdx : OnOneWeekday(Found[k])

\* the same for working hours written as times of the day
WindowsInsideDayWellFormed ==
    (Scanning /\ WellFormedTime(workingHoursStart) /\ WellFormedTime(workingHoursEnd)) =>
        /\ fs.workStartHour \in 0..23 /\ fs.workStartMin \in 0..59
        /\ fs.workEndHour \in 0..23 /\ fs.workEndMin \in 0..59
        /\ duration > 0 => \A k \in FoundIdx : OnOneWeekday(Found[k])

\* slots found on two weekdays for working hours written as times of the day
WindowsInsideDayWitness ==
    /\ fs.pc = "return" /\ duration > 0
    /\ WellFormedTime(workingHoursStart) /\ WellFormedTime(workingHoursEnd)
    /\ \E j, k \in FoundIdx : DayOf(Found[j].Start) # DayOf(Found[k].Start)

====
